---- MODULE Spec2Model ----
(***************************************************************************)
(* Remote session and fan-out execution orchestrator of the SSH control    *)
(* panel's WebSocket server.                                               *)
(*                                                                         *)
(* The repository holds several revisions of the server; the two modelled  *)
(* are told apart by the variable `variant`:                               *)
(*   "parallel"   src/src/lib/websocket-server.ts : script:run starts all  *)
(*                hosts at once (Promise.all), terminals are legacy shells;*)
(*   "sequential" src/unnamed/part_001 : script:run walks the hosts in a   *)
(*                for-loop, terminals are PTY sessions (src/lib/ssh-pty.ts)*)
(* An action is the code of one handler between two awaits.                *)
(***************************************************************************)
EXTENDS Integers, Sequences, FiniteSets, TLC

\* ------------------------------------------------------------------ bounds
MaxRuns == 1
MaxReruns == 1
MaxTasks == 3
MaxClock == 1
MaxSessions == 2
MaxExecs == 2
MaxChunks == 2

\* --------------------------------------------------------------- constants
Variants == {"parallel", "sequential"}
Sockets == {"s1", "s2"}
\* the socket.io connections: s3 is a second connection of the user of s2
Conns == Sockets \cup {"s3"}
UserOf(s) == IF s = "s1" THEN 1 ELSE 2
RoleOf(s) == IF s = "s1" THEN "DEVELOPER" ELSE "ADMIN"
\* rows of the server table: id -> owning user; 9 is an id with no row
ServerRows == {1, 2, 3, 4}
ServerOwner(id) == IF id = 4 THEN 2 ELSE 1
ExitCodes == {0, 1}
\* the SSH endpoint of server 2 refuses every connection
Reachable(h) == h # 2

VARIABLES variant, clock, scriptExecutions, runs, reply,
          terminalSessions, ptyShellSessions, attempts, closed,
          execs, streams, emitted, socketData, page

batchVars == <<scriptExecutions, runs>>
termVars == <<terminalSessions, ptyShellSessions, attempts, closed>>
\* remote executions of legacy sessions, shell streams of PTY sessions, and
\* the terminal:data events sent so far
ioVars == <<execs, streams, emitted>>
vars == <<variant, clock, reply, batchVars, termVars, ioVars, socketData, page>>

\* ------------------------------------------------------------------ helpers
Range(s) == {s[i] : i \in 1..Len(s)}

RECURSIVE SortedSeq(_)
SortedSeq(S) ==
  IF S = {} THEN <<>>
  ELSE LET m == CHOOSE x \in S : \A y \in S : x <= y
       IN <<m>> \o SortedSeq(S \ {m})

\* a command line is a sequence of words; " " is a blank word
Trim(cmd) == SelectSeq(cmd, LAMBDA w : w # " ")
Truthy(cmd) == Len(cmd) > 0

\* lowerCommand.includes(dangerous), on words instead of characters
Contains(cmd, pat) ==
  \E i \in 0..(Len(cmd) - Len(pat)) :
     \A j \in 1..Len(pat) : cmd[i + j] = pat[j]

\* the deny-list of destructive patterns; the only copy in the repository is
\* the one the scripts page screens with before it sends script:run
dangerousCommands ==
  { <<"rm", "-rf", "/">>, <<"rm", "-rf", "*">>, <<"mkfs">>,
    <<"dd", "if=/dev/zero">>, <<"format">>, <<"fdisk">>, <<"parted">>,
    <<":(){", ":|:&", "};:">> }

DenyListed(cmd) == \E pat \in dangerousCommands : Contains(cmd, pat)

\* the script:run requests clients send: socket, command, serverIds
RunInputs ==
  { [sock |-> "s1", command |-> <<"uptime">>, serverIds |-> <<1, 2, 3>>],
    [sock |-> "s1", command |-> <<"uptime">>, serverIds |-> <<1, 4>>],
    [sock |-> "s1", command |-> <<"uptime">>, serverIds |-> <<4>>],
    [sock |-> "s1", command |-> <<"uptime">>, serverIds |-> <<>>],
    [sock |-> "s1", command |-> <<"uptime">>, serverIds |-> <<1, 1>>],
    [sock |-> "s1", command |-> <<"sudo", "rm", "-rf", "/">>, serverIds |-> <<1>>],
    [sock |-> "s2", command |-> <<"uptime">>, serverIds |-> <<2, 4>>] }

ClientIds == {<<"client", 0, 0>>}
GeneratedId(u, now) == <<"exec", u, now>>
\* an id no script:run was ever answered with
UnknownExecId == GeneratedId(1, MaxClock + 1)
ExecIds ==
  ClientIds \cup {UnknownExecId}
            \cup {GeneratedId(u, c) : u \in {1, 2}, c \in 0..MaxClock}
NoId == <<"none", 0, 0>>

NoRun == 0
NoSid == <<"none", 0, 0, 0>>
\* what the last step answered to the client event it handled
\* sid is the session the step was about; tagged tells whether the payload of
\* the emitted event has a sessionId property; then is a second event emitted
\* by the same step
NoReply ==
  [ev |-> "none", out |-> "none", err |-> "", id |-> NoId, sid |-> NoSid,
   effect |-> "none", tagged |-> FALSE, then |-> "none"]
Reply(ev, out, err) == [NoReply EXCEPT !.ev = ev, !.out = out, !.err = err]
CancelReply(id, out) == [NoReply EXCEPT !.ev = "script:cancel", !.out = out, !.id = id]
\* the payload objects of the terminal events: every terminal:error is emitted
\* as { error } or { error, details }, the other events start with sessionId
PayloadHasSessionId(out) ==
  out \in {"terminal:connected", "terminal:data", "terminal:closed",
           "terminal:command-started", "terminal:stream", "terminal:output",
           "terminal:tab-complete-result"}
\* the scripts page: its terminals map (server id -> status, "none" where the
\* map has no entry), and how many of the events the server sent for each run
\* have been delivered to it
NewPage ==
  [terminals |-> [h \in ServerRows |-> "none"],
   started |-> [r \in 1..(MaxRuns + MaxReruns) |-> 0],
   progress |-> [r \in 1..(MaxRuns + MaxReruns) |-> [h \in ServerRows |-> 0]],
   cancelled |-> [r \in 1..(MaxRuns + MaxReruns) |-> 0]]

\* a connection: whether its 'disconnect' event has not happened yet, and the
\* socket.data.terminalSession the parallel revision's terminal:connect sets
NewSocket == [connected |-> TRUE, terminalSession |-> NoSid]

TermReply(ev, sid, out, err, effect) ==
  [NoReply EXCEPT !.ev = ev, !.out = out, !.err = err, !.sid = sid,
                  !.effect = effect, !.tagged = PayloadHasSessionId(out)]

\* prisma.server.findMany({ id: { in: serverIds }, userId? })
FindServers(serverIds, u, role) ==
  SortedSeq({ id \in Range(serverIds) \cap ServerRows :
                role = "ADMIN" \/ ServerOwner(id) = u })

\* what a script:run handler keeps per host
NewTask ==
  [pc |-> "idle", exit |-> -1, remote |-> "pending", reports |-> <<>>,
   result |-> "none", log |-> "none", liveAtCancel |-> FALSE,
   progress |-> <<>>]

NewRun(s, id, in, servers) ==
  [sock |-> s, userId |-> UserOf(s), execId |-> id,
   command |-> in.command, serverIds |-> in.serverIds, servers |-> servers,
   phase |-> "creatingLogs", status |-> "running", isRunning |-> TRUE,
   abort |-> [h \in Range(servers) |-> FALSE],
   task |-> [h \in Range(servers) |-> NewTask],
   idx |-> 0, successCount |-> 0, failedCount |-> 0,
   started |-> 0, completed |-> 0, cancelled |-> 0, errors |-> 0,
   cancelPending |-> FALSE, cancelRequested |-> FALSE]

\* hosts held by the runs so far; a run over no host still holds one slot
Slots(servers) == IF Len(servers) = 0 THEN 1 ELSE Len(servers)

TotalTasks == LET RECURSIVE Sum(_)
                  Sum(i) == IF i = 0 THEN 0 ELSE Slots(runs[i].servers) + Sum(i - 1)
              IN Sum(Len(runs))

\* the runs so far use at most MaxRuns batch ids, and at most MaxReruns of
\* them were started under an id an earlier run had
BatchIds == {runs[r].execId : r \in 1..Len(runs)}
CanStartWithin(id, servers, maxIds) ==
  /\ IF id \in BatchIds
     THEN Len(runs) - Cardinality(BatchIds) < MaxReruns
     ELSE Cardinality(BatchIds) < maxIds
  /\ TotalTasks + Slots(servers) <= MaxTasks
CanStart(id, servers) == CanStartWithin(id, servers, MaxRuns)

Init ==
  /\ variant \in Variants
  /\ clock = 0
  /\ scriptExecutions = [id \in ExecIds |-> NoRun]
  /\ runs = <<>>
  /\ reply = NoReply
  /\ terminalSessions = <<>>
  /\ ptyShellSessions = <<>>
  /\ attempts = {}
  /\ closed = {}
  /\ execs = <<>>
  /\ streams = <<>>
  /\ emitted = <<>>
  /\ socketData = [s \in Conns |-> NewSocket]
  /\ page = NewPage

Tick ==
  /\ clock < MaxClock
  /\ clock' = clock + 1
  /\ reply' = NoReply
  /\ UNCHANGED <<variant, socketData, page, batchVars, termVars, ioVars>>

\* ========================================================================
\* script:run, parallel revision (websocket-server.ts 379-601)
\* ========================================================================

\* results.filter(r => r.success).length and the script:completed emit
ParComplete(rs, r) ==
  LET t == scriptExecutions[rs[r].execId]
      rs1 == IF t # NoRun THEN [rs EXCEPT ![t].status = "completed"] ELSE rs
      succ == Cardinality({h \in DOMAIN rs[r].task : rs[r].task[h].result = "success"})
  IN [rs1 EXCEPT ![r].phase = "finished",
                 ![r].successCount = succ,
                 ![r].failedCount = Len(rs[r].servers) - succ,
                 ![r].completed = @ + 1]

\* await Promise.all(executions): rejects with the first rejected host,
\* resolves when every host returned its result
ParSettle(rs, r) ==
  IF rs[r].phase # "executing" THEN rs
  ELSE IF \E h \in DOMAIN rs[r].task : rs[r].task[h].pc = "rejected"
       THEN [rs EXCEPT ![r].phase = "errored", ![r].errors = @ + 1]
  ELSE IF \A h \in DOMAIN rs[r].task : rs[r].task[h].pc = "done"
       THEN ParComplete(rs, r)
  ELSE rs

\* the handler up to its first await after scriptExecutions.set; maxIds bounds
\* the number of batch ids in use
ParStart(s, in, maxIds) ==
  /\ variant = "parallel"
  /\ LET u == UserOf(s)
         id == GeneratedId(u, clock)
         servers == FindServers(in.serverIds, u, RoleOf(s))
     IN IF Len(servers) # Len(in.serverIds)
        THEN /\ reply' = Reply("script:run", "script:error", "Access denied to some servers")
             /\ UNCHANGED <<runs, scriptExecutions>>
        ELSE /\ CanStartWithin(id, servers, maxIds)
             /\ runs' = Append(runs, NewRun(s, id, in, servers))
             /\ scriptExecutions' = [scriptExecutions EXCEPT ![id] = Len(runs) + 1]
             /\ reply' = Reply("script:run", "none", "")
  /\ UNCHANGED <<variant, socketData, page, clock, termVars, ioVars>>

ParScriptRun(s, in) == ParStart(s, in, MaxRuns)

\* a faulty variant of the step below: the hosts are started without their
\* initial script:progress
ParLogsCreatedNoInitialProgress(r) ==
  /\ variant = "parallel"
  /\ r \in 1..Len(runs)
  /\ runs[r].phase = "creatingLogs"
  /\ LET rs == [runs EXCEPT
                  ![r].phase = "executing",
                  ![r].started = @ + 1,
                  ![r].task = [h \in DOMAIN @ |->
                                 [@[h] EXCEPT !.pc = "streaming", !.log = "RUNNING"]]]
     IN runs' = ParSettle(rs, r)
  /\ reply' = NoReply
  /\ UNCHANGED <<variant, socketData, page, clock, scriptExecutions, termVars, ioVars>>

\* the scriptLog rows are created, script:started is emitted and every host's
\* execution is started in the same turn; each host's task emits its initial
\* script:progress (running) before its first await
ParLogsCreated(r) ==
  /\ variant = "parallel"
  /\ r \in 1..Len(runs)
  /\ runs[r].phase = "creatingLogs"
  /\ LET rs == [runs EXCEPT
                  ![r].phase = "executing",
                  ![r].started = @ + 1,
                  ![r].task = [h \in DOMAIN @ |->
                                 [@[h] EXCEPT !.pc = "streaming", !.log = "RUNNING",
                                              !.progress = <<"running">>]]]
     IN runs' = ParSettle(rs, r)
  /\ reply' = NoReply
  /\ UNCHANGED <<variant, socketData, page, clock, scriptExecutions, termVars, ioVars>>

ParLogsCreateFails(r) ==
  /\ variant = "parallel"
  /\ r \in 1..Len(runs)
  /\ runs[r].phase = "creatingLogs"
  /\ runs' = [runs EXCEPT ![r].phase = "errored", ![r].errors = @ + 1]
  /\ reply' = NoReply
  /\ UNCHANGED <<variant, socketData, page, clock, scriptExecutions, termVars, ioVars>>

StatusOf(code) == IF code = 0 THEN "success" ELSE "failed"

\* the streaming engine delivers the exit code: the callback emits the
\* terminal script:progress unless the host is flagged aborted, then the
\* promise resolves and the handler awaits scriptLog.update
ParExit(r, h, code) ==
  /\ variant = "parallel"
  /\ r \in 1..Len(runs)
  /\ h \in DOMAIN runs[r].task
  /\ runs[r].task[h].pc = "streaming"
  /\ Reachable(h)
  /\ runs' = [runs EXCEPT
                ![r].task[h].pc = "updating",
                ![r].task[h].exit = code,
                ![r].task[h].remote = "exit",
                ![r].task[h].reports =
                    IF runs[r].abort[h] THEN @ ELSE Append(@, StatusOf(code)),
                ![r].task[h].progress =
                    IF runs[r].abort[h] THEN @ ELSE Append(@, StatusOf(code))]
  /\ reply' = NoReply
  /\ UNCHANGED <<variant, socketData, page, clock, scriptExecutions, termVars, ioVars>>

\* the streaming engine fails (connection refused, timeout, dropped stream)
ParExecError(r, h) ==
  /\ variant = "parallel"
  /\ r \in 1..Len(runs)
  /\ h \in DOMAIN runs[r].task
  /\ runs[r].task[h].pc = "streaming"
  /\ runs' = [runs EXCEPT ![r].task[h].pc = "catchUpdating",
                          ![r].task[h].remote = "error"]
  /\ reply' = NoReply
  /\ UNCHANGED <<variant, socketData, page, clock, scriptExecutions, termVars, ioVars>>

\* prisma.scriptLog.update in the try block succeeds; the host returns
ParUpdate(r, h) ==
  /\ variant = "parallel"
  /\ r \in 1..Len(runs)
  /\ h \in DOMAIN runs[r].task
  /\ runs[r].task[h].pc = "updating"
  /\ LET code == runs[r].task[h].exit
         rs == [runs EXCEPT
                  ![r].task[h].pc = "done",
                  ![r].task[h].log = IF code = 0 THEN "SUCCESS" ELSE "FAILED",
                  ![r].task[h].result = StatusOf(code)]
     IN runs' = ParSettle(rs, r)
  /\ reply' = NoReply
  /\ UNCHANGED <<variant, socketData, page, clock, scriptExecutions, termVars, ioVars>>

\* prisma.scriptLog.update in the try block throws: control enters the catch
ParUpdateFails(r, h) ==
  /\ variant = "parallel"
  /\ r \in 1..Len(runs)
  /\ h \in DOMAIN runs[r].task
  /\ runs[r].task[h].pc = "updating"
  /\ runs' = [runs EXCEPT ![r].task[h].pc = "catchUpdating"]
  /\ reply' = NoReply
  /\ UNCHANGED <<variant, socketData, page, clock, scriptExecutions, termVars, ioVars>>

\* catch block: the log is set FAILED, script:progress failed is emitted
ParCatchUpdate(r, h) ==
  /\ variant = "parallel"
  /\ r \in 1..Len(runs)
  /\ h \in DOMAIN runs[r].task
  /\ runs[r].task[h].pc = "catchUpdating"
  /\ LET rs == [runs EXCEPT
                  ![r].task[h].pc = "done",
                  ![r].task[h].log = "FAILED",
                  ![r].task[h].reports = Append(@, "failed"),
                  ![r].task[h].progress = Append(@, "failed"),
                  ![r].task[h].result = "failed"]
     IN runs' = ParSettle(rs, r)
  /\ reply' = NoReply
  /\ UNCHANGED <<variant, socketData, page, clock, scriptExecutions, termVars, ioVars>>

\* catch block: the update throws again, the host's promise rejects
ParCatchUpdateFails(r, h) ==
  /\ variant = "parallel"
  /\ r \in 1..Len(runs)
  /\ h \in DOMAIN runs[r].task
  /\ runs[r].task[h].pc = "catchUpdating"
  /\ runs' = ParSettle([runs EXCEPT ![r].task[h].pc = "rejected"], r)
  /\ reply' = NoReply
  /\ UNCHANGED <<variant, socketData, page, clock, scriptExecutions, termVars, ioVars>>

\* ========================================================================
\* script:cancel, parallel revision (websocket-server.ts 604-638)
\* ========================================================================
\* history: the hosts that had no terminal state when the cancel was handled
MarkLive(task) ==
  [h \in DOMAIN task |->
     [task[h] EXCEPT !.liveAtCancel = (task[h].reports = <<>> /\ task[h].result = "none")]]

\* a faulty variant of the handler below: the status guard is left out
ParScriptCancelNoStatusGuard(s, id) ==
  /\ variant = "parallel"
  /\ LET t == scriptExecutions[id]
     IN IF t # NoRun
        THEN runs' = [runs EXCEPT
                        ![t].abort = [h \in DOMAIN @ |-> TRUE],
                        ![t].status = "cancelled",
                        ![t].cancelPending = TRUE,
                        ![t].cancelRequested = TRUE,
                        ![t].task = MarkLive(@)]
        ELSE runs' = runs
  /\ reply' = CancelReply(id, "none")
  /\ UNCHANGED <<variant, socketData, page, clock, scriptExecutions, termVars, ioVars>>

ParScriptCancel(s, id) ==
  /\ variant = "parallel"
  /\ LET t == scriptExecutions[id]
     IN IF t # NoRun /\ runs[t].status = "running"
        THEN runs' = [runs EXCEPT
                        ![t].abort = [h \in DOMAIN @ |-> TRUE],
                        ![t].status = "cancelled",
                        ![t].cancelPending = TRUE,
                        ![t].cancelRequested = TRUE,
                        ![t].task = MarkLive(@)]
        ELSE runs' = runs
  /\ reply' = CancelReply(id, "none")
  /\ UNCHANGED <<variant, socketData, page, clock, scriptExecutions, termVars, ioVars>>

\* prisma.scriptLog.updateMany({ userId, status: RUNNING }) then the emit
ParCancelUpdated(t) ==
  /\ variant = "parallel"
  /\ t \in 1..Len(runs)
  /\ runs[t].cancelPending
  /\ LET u == runs[t].userId
         rs == [x \in 1..Len(runs) |->
                  IF runs[x].userId = u
                  THEN [runs[x] EXCEPT !.task =
                          [h \in DOMAIN @ |->
                             IF @[h].log = "RUNNING"
                             THEN [@[h] EXCEPT !.log = "CANCELLED"] ELSE @[h]]]
                  ELSE runs[x]]
     IN runs' = [rs EXCEPT ![t].cancelPending = FALSE, ![t].cancelled = @ + 1]
  /\ reply' = NoReply
  /\ UNCHANGED <<variant, socketData, page, clock, scriptExecutions, termVars, ioVars>>

ParCancelUpdateFails(t) ==
  /\ variant = "parallel"
  /\ t \in 1..Len(runs)
  /\ runs[t].cancelPending
  /\ runs' = [runs EXCEPT ![t].cancelPending = FALSE]
  /\ reply' = NoReply
  /\ UNCHANGED <<variant, socketData, page, clock, scriptExecutions, termVars, ioVars>>

\* ========================================================================
\* script:run, sequential revision (part_001 404-599)
\* ========================================================================
MapLive(id) ==
  /\ scriptExecutions[id] # NoRun
  /\ runs[scriptExecutions[id]].isRunning

\* the head of the for-loop after host idx has been finished: either the
\* next host is started or the loop is left and script:completed is emitted
SeqNext(rs, r) ==
  LET id == rs[r].execId
      n == Len(rs[r].servers)
      i == rs[r].idx
  IN IF i < n /\ MapLive(id)
     THEN /\ runs' = [rs EXCEPT ![r].idx = i + 1,
                                ![r].task[rs[r].servers[i + 1]].pc = "streaming",
                                ![r].task[rs[r].servers[i + 1]].progress = <<"running">>]
          /\ UNCHANGED scriptExecutions
     ELSE /\ runs' = [rs EXCEPT ![r].phase = "finished", ![r].completed = @ + 1]
          /\ scriptExecutions' = [scriptExecutions EXCEPT ![id] = NoRun]

SeqScriptRun(s, in, cid) ==
  /\ variant = "sequential"
  /\ LET u == UserOf(s)
         id == IF cid \in ClientIds THEN cid ELSE GeneratedId(u, clock)
         servers == FindServers(in.serverIds, u, RoleOf(s))
         Reject(msg) == /\ reply' = Reply("script:run", "script:error", msg)
                        /\ UNCHANGED <<runs, scriptExecutions>>
     IN IF in.serverIds = <<>> THEN Reject("No servers specified")
        ELSE IF ~Truthy(in.command)
             THEN Reject("Either scriptId or (scriptName + command) is required")
        ELSE IF Trim(in.command) = <<>> THEN Reject("Command is empty")
        ELSE IF Len(servers) = 0 THEN Reject("No valid servers found")
        ELSE /\ CanStart(id, servers)
             /\ LET r == Len(runs) + 1
                    new == [NewRun(s, id, in, servers) EXCEPT
                               !.phase = "executing", !.started = 1, !.idx = 1,
                               !.task[servers[1]].pc = "streaming",
                               !.task[servers[1]].progress = <<"running">>]
                IN runs' = Append(runs, new)
             /\ scriptExecutions' = [scriptExecutions EXCEPT ![id] = Len(runs) + 1]
             /\ reply' = Reply("script:run", "script:started", "")
  /\ UNCHANGED <<variant, socketData, page, clock, termVars, ioVars>>

\* the engine delivers the exit code: the callback stores it only while the
\* batch is registered and running; then the counters and the terminal
\* script:progress, then the loop head
SeqExit(r, code) ==
  /\ variant = "sequential"
  /\ r \in 1..Len(runs)
  /\ runs[r].phase = "executing"
  /\ LET h == runs[r].servers[runs[r].idx]
         exitCode == IF MapLive(runs[r].execId) THEN code ELSE 0
         success == exitCode = 0
         rs == [runs EXCEPT
                  ![r].task[h].pc = "done",
                  ![r].task[h].exit = code,
                  ![r].task[h].remote = "exit",
                  ![r].task[h].reports = Append(@, StatusOf(exitCode)),
                  ![r].task[h].progress = Append(@, StatusOf(exitCode)),
                  ![r].task[h].result = StatusOf(exitCode),
                  ![r].successCount = IF success THEN @ + 1 ELSE @,
                  ![r].failedCount = IF success THEN @ ELSE @ + 1]
     IN /\ runs[r].task[h].pc = "streaming"
        /\ Reachable(h)
        /\ SeqNext(rs, r)
  /\ reply' = NoReply
  /\ UNCHANGED <<variant, socketData, page, clock, termVars, ioVars>>

\* the engine rejects: catch block
SeqExecError(r) ==
  /\ variant = "sequential"
  /\ r \in 1..Len(runs)
  /\ runs[r].phase = "executing"
  /\ LET h == runs[r].servers[runs[r].idx]
         rs == [runs EXCEPT
                  ![r].task[h].pc = "done",
                  ![r].task[h].remote = "error",
                  ![r].task[h].reports = Append(@, "failed"),
                  ![r].task[h].progress = Append(@, "failed"),
                  ![r].task[h].result = "failed",
                  ![r].failedCount = @ + 1]
     IN /\ runs[r].task[h].pc = "streaming"
        /\ SeqNext(rs, r)
  /\ reply' = NoReply
  /\ UNCHANGED <<variant, socketData, page, clock, termVars, ioVars>>

\* ========================================================================
\* script:cancel, sequential revision (part_001 604-622)
\* ========================================================================
SeqScriptCancel(s, id) ==
  /\ variant = "sequential"
  /\ LET t == scriptExecutions[id]
     IN IF t # NoRun /\ runs[t].userId = UserOf(s)
        THEN /\ runs' = [runs EXCEPT ![t].isRunning = FALSE,
                                     ![t].cancelled = @ + 1,
                                     ![t].cancelRequested = TRUE,
                                     ![t].task = MarkLive(@)]
             /\ scriptExecutions' = [scriptExecutions EXCEPT ![id] = NoRun]
             /\ reply' = CancelReply(id, "script:cancelled")
        ELSE /\ reply' = CancelReply(id, "none")
             /\ UNCHANGED <<runs, scriptExecutions>>
  /\ UNCHANGED <<variant, socketData, page, clock, termVars, ioVars>>

\* ========================================================================
RunIdx == 1..(MaxRuns + MaxReruns)

\* the ids a client names in script:cancel: ids it was given, and one it was not
TargetIds == {runs[r].execId : r \in 1..Len(runs)} \cup {UnknownExecId}

ScriptRun(s, in) ==
  \/ ParScriptRun(s, in)
  \/ \E cid \in ClientIds \cup {<<"none", 0, 0>>} : SeqScriptRun(s, in, cid)

ScriptCancel(s, id) ==
  \/ ParScriptCancel(s, id)
  \/ SeqScriptCancel(s, id)

BatchNext ==
  \/ Tick
  \/ \E in \in RunInputs : ScriptRun(in.sock, in)
  \/ \E s \in Sockets, id \in TargetIds : ScriptCancel(s, id)
  \/ \E r \in RunIdx : ParLogsCreated(r)
  \/ \E r \in RunIdx : ParLogsCreateFails(r)
  \/ \E r \in RunIdx, h \in ServerRows, c \in ExitCodes : ParExit(r, h, c)
  \/ \E r \in RunIdx, h \in ServerRows : ParExecError(r, h)
  \/ \E r \in RunIdx, h \in ServerRows : ParUpdate(r, h)
  \/ \E r \in RunIdx, h \in ServerRows : ParUpdateFails(r, h)
  \/ \E r \in RunIdx, h \in ServerRows : ParCatchUpdate(r, h)
  \/ \E r \in RunIdx, h \in ServerRows : ParCatchUpdateFails(r, h)
  \/ \E r \in RunIdx : ParCancelUpdated(r)
  \/ \E r \in RunIdx : ParCancelUpdateFails(r)
  \/ \E r \in RunIdx, c \in ExitCodes : SeqExit(r, c)
  \/ \E r \in RunIdx : SeqExecError(r)

\* ========================================================================
\* Terminal sessions
\* ========================================================================
\* a registry (JavaScript Map) is a function whose domain is the key set
Has(m, k) == k \in DOMAIN m
Put(m, k, v) == [x \in DOMAIN m \cup {k} |-> IF x = k THEN v ELSE m[x]]
Del(m, k) == [x \in DOMAIN m \ {k} |-> m[x]]

\* `pty-${userId}-${serverId}-${Date.now()}` and `${userId}-${serverId}-${Date.now()}`
PtySessionId(u, srv, now) == <<"pty", u, srv, now>>
LegacySessionId(u, srv, now) == <<"term", u, srv, now>>
ConnectTargets == {1, 4, 9}

SessionLive(sid) == Has(terminalSessions, sid) /\ terminalSessions[sid].isActive

\* sessions opened so far, live or closed, and connects in flight
CanOpen ==
  /\ Cardinality(attempts) + Cardinality(DOMAIN terminalSessions \cup closed) < MaxSessions
  /\ Cardinality(attempts) + Len(streams) < MaxSessions

\* the ids a client names in its events: ids it was given, and one it was not
UnknownSid == <<"pty", 1, 1, MaxClock + 1>>
TargetSids == DOMAIN terminalSessions \cup closed \cup {UnknownSid}

\* a faulty variant of the check below: the ownership test is left out
HandlerAccessNoOwnerTest(s, srv) ==
  IF srv \notin ServerRows
  THEN IF variant = "sequential" THEN "Server not found"
       ELSE "Access denied to this server"
  ELSE "ok"

\* each terminal:connect in flight is an invocation of its own, also when two
\* of them computed the same session id: n tells them apart
NextAttempt ==
  CHOOSE n \in 1..MaxSessions :
    /\ \A a \in attempts : a.n # n
    /\ \A m \in 1..(n - 1) : \E a \in attempts : a.n = m

\* the handler's access check (part_001 189-202, websocket-server.ts 133-140)
HandlerAccess(s, srv) ==
  IF srv \notin ServerRows
  THEN IF variant = "sequential" THEN "Server not found"
       ELSE "Access denied to this server"
  ELSE IF RoleOf(s) # "ADMIN" /\ ServerOwner(srv) # UserOf(s)
       THEN "Access denied to this server"
  ELSE "ok"

\* createPTYShellSession's own lookup (ssh-pty.ts 35-41)
PtyAccess(u, srv) ==
  IF srv \notin ServerRows \/ ServerOwner(srv) # u
  THEN "Server not found or access denied"
  ELSE "ok"

\* terminal:connect up to the call of client.connect
PtyTerminalConnect(s, srv) ==
  /\ variant = "sequential"
  /\ LET u == UserOf(s)
         sid == PtySessionId(u, srv, clock)
         Refuse(msg) == /\ reply' = TermReply("terminal:connect", NoSid, "terminal:error", msg, "none")
                        /\ UNCHANGED attempts
     IN IF HandlerAccess(s, srv) # "ok" THEN Refuse(HandlerAccess(s, srv))
        ELSE IF PtyAccess(u, srv) # "ok" THEN Refuse(PtyAccess(u, srv))
        ELSE /\ CanOpen
             /\ attempts' = attempts \cup
                   {[n |-> NextAttempt, sid |-> sid, sock |-> s, srv |-> srv,
                     stage |-> "connecting"]}
             /\ reply' = TermReply("terminal:connect", sid, "none", "", "connect")
  /\ UNCHANGED <<variant, socketData, page, clock, batchVars, ioVars, terminalSessions, ptyShellSessions, closed>>

\* client 'ready': the timeout is cleared and the shell is requested
PtyReady(a) ==
  /\ a \in attempts
  /\ a.stage = "connecting"
  /\ attempts' = (attempts \ {a}) \cup {[a EXCEPT !.stage = "shellReq"]}
  /\ reply' = NoReply
  /\ UNCHANGED <<variant, socketData, page, clock, batchVars, ioVars, terminalSessions, ptyShellSessions, closed>>

\* client 'error', the 15 s timeout, or the shell request's error: the promise
\* resolves with success false and the handler emits terminal:error
PtyConnectFails(a, why) ==
  /\ a \in attempts
  /\ \/ a.stage = "connecting" /\ why \in {"error", "Connection timeout"}
     \/ a.stage = "shellReq" /\ why \in {"error", "shell error"}
  /\ attempts' = attempts \ {a}
  /\ reply' = TermReply("terminal:connect", a.sid, "terminal:error", why, "none")
  /\ UNCHANGED <<variant, socketData, page, clock, batchVars, ioVars, terminalSessions, ptyShellSessions, closed>>

\* the shell stream is opened: the PTY session is stored, the promise resolves,
\* the handler sets the data/close handlers, registers the session and emits
\* terminal:connected
PtyShellOpened(a) ==
  /\ a \in attempts
  /\ a.stage = "shellReq"
  /\ attempts' = attempts \ {a}
  /\ ptyShellSessions' = Put(ptyShellSessions, a.sid,
        [serverId |-> a.srv, userId |-> UserOf(a.sock), streamOpen |-> TRUE,
         handlers |-> TRUE, stream |-> Len(streams) + 1])
  /\ streams' = Append(streams, [sid |-> a.sid, sock |-> a.sock, state |-> "open",
                                 produced |-> 0, endedBy |-> "none", closedSent |-> 0])
  /\ terminalSessions' = Put(terminalSessions, a.sid,
        [userId |-> UserOf(a.sock), serverId |-> a.srv, sessionType |-> "pty",
         isActive |-> TRUE, lastActivity |-> clock, sock |-> a.sock])
  /\ reply' = TermReply("terminal:connect", a.sid, "terminal:connected", "", "none")
  /\ UNCHANGED <<variant, socketData, page, clock, batchVars, execs, emitted, closed>>

\* writeToPTYSession / resizePTYSession: reach the stream only if the PTY
\* registry holds the id
PtyReaches(sid) == Has(ptyShellSessions, sid)

TerminalInput(s, sid) ==
  /\ variant = "sequential"
  /\ IF ~SessionLive(sid)
     THEN /\ reply' = TermReply("terminal:input", sid, "terminal:error", "Invalid terminal session", "none")
          /\ UNCHANGED terminalSessions
     ELSE /\ terminalSessions' = [terminalSessions EXCEPT ![sid].lastActivity = clock]
          /\ reply' = IF PtyReaches(sid)
                      THEN TermReply("terminal:input", sid, "none", "", "write")
                      ELSE TermReply("terminal:input", sid, "terminal:error", "Failed to write to terminal", "none")
  /\ UNCHANGED <<variant, socketData, page, clock, batchVars, ioVars, ptyShellSessions, attempts, closed>>

TerminalResize(s, sid) ==
  /\ variant = "sequential"
  /\ reply' = IF SessionLive(sid) /\ PtyReaches(sid)
              THEN TermReply("terminal:resize", sid, "none", "", "resize")
              ELSE TermReply("terminal:resize", sid, "none", "", "none")
  /\ UNCHANGED <<variant, socketData, page, clock, batchVars, termVars, ioVars>>

\* terminal:command on a PTY session writes command + "\r" to the stream
PtyTerminalCommand(s, sid) ==
  /\ variant = "sequential"
  /\ IF ~SessionLive(sid)
     THEN /\ reply' = TermReply("terminal:command", sid, "terminal:error", "Invalid terminal session", "none")
          /\ UNCHANGED terminalSessions
     ELSE /\ terminalSessions' = [terminalSessions EXCEPT ![sid].lastActivity = clock]
          /\ reply' = TermReply("terminal:command", sid, "none", "",
                                IF PtyReaches(sid) THEN "write" ELSE "none")
  /\ UNCHANGED <<variant, socketData, page, clock, batchVars, ioVars, ptyShellSessions, attempts, closed>>

\* closePTYShellSession: ends stream and client, removes the entry
ClosePty(m, sid) == IF Has(m, sid) THEN Del(m, sid) ELSE m
\* its session.stream.end() and client.end(): the stream of the entries held
\* under these ids is being shut down; what the remote side had already sent
\* is still delivered, and the 'close' event is still to come
\* endedBy keeps who had it closed: the client, the sweep, or a stream's close
EndStreams(sids, who) ==
  [n \in 1..Len(streams) |->
     IF /\ streams[n].state = "open"
        /\ \E sid \in sids : Has(ptyShellSessions, sid) /\ ptyShellSessions[sid].stream = n
     THEN [streams[n] EXCEPT !.state = "ended", !.endedBy = who]
     ELSE streams[n]]

\* a faulty variant of the handler below: when the id is not registered, the
\* sessions of the socket's user are closed instead
PtyTerminalDisconnectFallsBack(s, sid) ==
  /\ variant = "sequential"
  /\ LET mine == {x \in DOMAIN terminalSessions : terminalSessions[x].userId = UserOf(s)}
         gone == IF Has(terminalSessions, sid) THEN {sid} ELSE mine
     IN /\ ptyShellSessions' = [x \in DOMAIN ptyShellSessions \ gone |-> ptyShellSessions[x]]
        /\ streams' = EndStreams(gone, "client")
        /\ terminalSessions' = [x \in DOMAIN terminalSessions \ gone |-> terminalSessions[x]]
        /\ closed' = closed \cup gone
  /\ reply' = TermReply("terminal:disconnect", sid, "none", "", "none")
  /\ UNCHANGED <<variant, socketData, page, clock, batchVars, execs, emitted, attempts>>

PtyTerminalDisconnect(s, sid) ==
  /\ variant = "sequential"
  /\ IF Has(terminalSessions, sid)
     THEN /\ ptyShellSessions' = ClosePty(ptyShellSessions, sid)
          /\ streams' = EndStreams({sid}, "client")
          /\ terminalSessions' = Del(terminalSessions, sid)
          /\ closed' = closed \cup {sid}
     ELSE UNCHANGED <<ptyShellSessions, streams, terminalSessions, closed>>
  /\ reply' = TermReply("terminal:disconnect", sid, "none", "", "none")
  /\ UNCHANGED <<variant, socketData, page, clock, batchVars, execs, emitted, attempts>>

\* the 'close' event of a shell stream: the handler looks the session up by
\* id, calls its onClose (terminal:closed, terminalSessions.delete) and closes
\* the PTY entry held under the id
PtyStreamClose(n) ==
  /\ n \in 1..Len(streams)
  /\ streams[n].state # "closed"
  /\ LET sid == streams[n].sid
         had == Has(ptyShellSessions, sid)
         held == IF had THEN ptyShellSessions[sid].stream ELSE 0
         \* onClose of the session held under the id sends terminal:closed,
         \* closePTYShellSession ends its stream
         Held(st) == [st EXCEPT !.closedSent = @ + 1,
                                !.state = IF @ = "open" THEN "ended" ELSE @,
                                !.endedBy = IF st.state = "open" THEN "remote" ELSE @]
         Gone(st) == [st EXCEPT !.state = "closed",
                                !.endedBy = IF @ = "none" THEN "remote" ELSE @]
         After(i) == LET st == IF i = held THEN Held(streams[i]) ELSE streams[i]
                     IN IF i = n THEN Gone(st) ELSE st
     IN /\ streams' = [i \in 1..Len(streams) |-> After(i)]
        /\ ptyShellSessions' = ClosePty(ptyShellSessions, sid)
        /\ terminalSessions' = IF had /\ Has(terminalSessions, sid)
                               THEN Del(terminalSessions, sid) ELSE terminalSessions
        /\ closed' = closed \cup {sid}
        /\ reply' = TermReply("stream:close", sid,
                              IF had THEN "terminal:closed" ELSE "none", "", "none")
  /\ UNCHANGED <<variant, socketData, page, clock, batchVars, execs, emitted, attempts>>

\* the terminal:data events sent so far under an id, as (stream, chunk) pairs
EmittedUnder(sid) == IF Has(emitted, sid) THEN emitted[sid] ELSE <<>>

\* the shell stream's 'data' event: the handler set by setPTYSessionHandlers
\* calls onData, which emits terminal:data under the id of its terminal:connect.
\* The listener stays on the stream until its 'close' event
PtyData(n) ==
  /\ n \in 1..Len(streams)
  /\ streams[n].state # "closed"
  /\ streams[n].produced < MaxChunks
  /\ streams' = [streams EXCEPT ![n].produced = streams[n].produced + 1]
  /\ emitted' = Put(emitted, streams[n].sid,
                    Append(EmittedUnder(streams[n].sid), <<n, streams[n].produced + 1>>))
  /\ reply' = TermReply("stream:data", streams[n].sid, "terminal:data", "", "none")
  /\ UNCHANGED <<variant, socketData, page, clock, batchVars, termVars, execs>>

\* the periodic sweep over terminalSessions: now - lastActivity > timeout.
\* One tick of the clock stands for more than the timeout: time either stays
\* within the same millisecond or moves on by more than five minutes
Idle(sid) == clock - terminalSessions[sid].lastActivity > 0

\* a faulty variant of the sweep below: the PTY entries of the sessions it
\* removes are left in place
ReaperKeepsPtyEntry ==
  /\ \E sid \in DOMAIN terminalSessions : Idle(sid)
  /\ LET gone == {sid \in DOMAIN terminalSessions : Idle(sid)}
     IN /\ terminalSessions' = [x \in DOMAIN terminalSessions \ gone |-> terminalSessions[x]]
        /\ closed' = closed \cup gone
  /\ reply' = NoReply
  /\ UNCHANGED <<variant, socketData, page, clock, batchVars, ioVars, ptyShellSessions, attempts>>

Reaper ==
  /\ \E sid \in DOMAIN terminalSessions : Idle(sid)
  /\ LET gone == {sid \in DOMAIN terminalSessions : Idle(sid)}
     IN /\ terminalSessions' = [x \in DOMAIN terminalSessions \ gone |-> terminalSessions[x]]
        /\ ptyShellSessions' =
             IF variant = "sequential"
             THEN [x \in DOMAIN ptyShellSessions \ gone |-> ptyShellSessions[x]]
             ELSE ptyShellSessions
        /\ streams' = IF variant = "sequential" THEN EndStreams(gone, "sweep") ELSE streams
        /\ closed' = closed \cup gone
  /\ reply' = NoReply
  /\ UNCHANGED <<variant, socketData, page, clock, batchVars, execs, emitted, attempts>>

\* ------------------------------------------------ legacy shells (parallel)
\* terminal:connect of websocket-server.ts up to createShellSession
LegacyTerminalConnect(s, srv) ==
  /\ variant = "parallel"
  /\ LET u == UserOf(s)
         sid == LegacySessionId(u, srv, clock)
     IN IF HandlerAccess(s, srv) # "ok"
        THEN /\ reply' = TermReply("terminal:connect", NoSid, "terminal:error", HandlerAccess(s, srv), "none")
             /\ UNCHANGED attempts
        ELSE /\ CanOpen
             /\ attempts' = attempts \cup
                   {[n |-> NextAttempt, sid |-> sid, sock |-> s, srv |-> srv,
                     stage |-> "creatingShell"]}
             /\ reply' = TermReply("terminal:connect", sid, "none", "", "connect")
  /\ UNCHANGED <<variant, socketData, page, clock, batchVars, ioVars, terminalSessions, ptyShellSessions, closed>>

\* createShellSession returned: the session is registered or the error sent
LegacyShellCreated(a, ok) ==
  /\ a \in attempts
  /\ a.stage = "creatingShell"
  /\ attempts' = attempts \ {a}
  /\ IF ok
     THEN /\ terminalSessions' = Put(terminalSessions, a.sid,
                [userId |-> UserOf(a.sock), serverId |-> a.srv, sessionType |-> "legacy",
                 isActive |-> TRUE, lastActivity |-> clock, sock |-> a.sock])
          /\ socketData' = [socketData EXCEPT ![a.sock].terminalSession = a.sid]
          /\ reply' = TermReply("terminal:connect", a.sid, "terminal:connected", "", "none")
     ELSE /\ UNCHANGED <<terminalSessions, socketData>>
          /\ reply' = TermReply("terminal:connect", a.sid, "terminal:error", "Failed to create shell session", "none")
  /\ UNCHANGED <<variant, page, clock, batchVars, ioVars, ptyShellSessions, closed>>

\* the command texts a terminal client submits: a blank line, a command, and
\* the interrupt byte 0x03 that handleKeyDown sends for Ctrl+C
CtrlC == <<"\\x03">>
TermCommands == {<<" ">>, <<"ls">>, CtrlC}

\* one call of executeShellCommandStreaming / executeShellCommand; prepared
\* tells whether the text handed over is a return value of preprocessCommand
NewExec(s, sid, kind, text, prepared) ==
  [sid |-> sid, sock |-> s, kind |-> kind, text |-> text, state |-> "running",
   step |-> 1, completions |-> 0, prepared |-> prepared]
CanExec == Len(execs) < MaxExecs
Running(sid) == {e \in 1..Len(execs) : execs[e].sid = sid /\ execs[e].state = "running"}

\* terminal:command with this text: the session test, the blank-line answer,
\* terminal:command-started and the call of executeShellCommandStreaming
LegacySubmit(s, sid, cmd) ==
  /\ variant = "parallel"
  /\ IF ~SessionLive(sid)
     THEN /\ reply' = TermReply("terminal:command", sid, "terminal:error", "Invalid terminal session", "none")
          /\ UNCHANGED <<terminalSessions, execs>>
     ELSE /\ terminalSessions' = [terminalSessions EXCEPT ![sid].lastActivity = clock]
          /\ IF ~Truthy(Trim(cmd))
             THEN /\ reply' = TermReply("terminal:command", sid, "terminal:output", "", "none")
                  /\ UNCHANGED execs
             ELSE /\ CanExec
                  /\ execs' = Append(execs, NewExec(s, sid, "command", cmd, TRUE))
                  /\ reply' = TermReply("terminal:command", sid, "terminal:command-started", "", "exec")
  /\ UNCHANGED <<variant, socketData, page, clock, batchVars, streams, emitted, ptyShellSessions, attempts, closed>>

LegacyTerminalCommand(s, sid) == \E cmd \in TermCommands : LegacySubmit(s, sid, cmd)

\* the streaming callback with stdout or stderr: terminal:stream
LegacyStream(e) ==
  /\ e \in 1..Len(execs)
  /\ execs[e].kind = "command"
  /\ execs[e].state = "running"
  /\ reply' = TermReply("exec:data", execs[e].sid, "terminal:stream", "", "none")
  /\ UNCHANGED <<variant, socketData, page, clock, batchVars, termVars, ioVars>>

\* the streaming callback with 'exit': terminal:output with isComplete, then
\* the awaited promise resolves
LegacyExit(e, code) ==
  /\ e \in 1..Len(execs)
  /\ execs[e].kind = "command"
  /\ execs[e].state = "running"
  /\ execs' = [execs EXCEPT ![e].state = "exited",
                              ![e].completions = execs[e].completions + 1]
  /\ reply' = TermReply("exec:exit", execs[e].sid, "terminal:output", "", "none")
  /\ UNCHANGED <<variant, socketData, page, clock, batchVars, termVars, streams, emitted>>

\* a faulty variant of the handler's catch block: the error is reported but
\* no completion follows it
LegacyExecErrorNoCompletion(e) ==
  /\ e \in 1..Len(execs)
  /\ execs[e].kind = "command"
  /\ execs[e].state = "running"
  /\ execs' = [execs EXCEPT ![e].state = "failed"]
  /\ reply' = TermReply("exec:error", execs[e].sid, "terminal:error", "Failed to execute command", "none")
  /\ UNCHANGED <<variant, socketData, page, clock, batchVars, termVars, streams, emitted>>

\* the awaited promise rejects: terminal:error, then the completion "anyway
\* so UI doesn't hang"
LegacyExecError(e) ==
  /\ e \in 1..Len(execs)
  /\ execs[e].kind = "command"
  /\ execs[e].state = "running"
  /\ execs' = [execs EXCEPT ![e].state = "failed",
                              ![e].completions = execs[e].completions + 1]
  /\ reply' = [TermReply("exec:error", execs[e].sid, "terminal:error", "Failed to execute command", "none")
                 EXCEPT !.then = "terminal:output"]
  /\ UNCHANGED <<variant, socketData, page, clock, batchVars, termVars, streams, emitted>>

\* terminal:tab-complete: the session test and the first executeShellCommand
LegacyTabComplete(s, sid) ==
  /\ variant = "parallel"
  /\ IF ~SessionLive(sid)
     THEN /\ reply' = TermReply("terminal:tab-complete", sid, "terminal:tab-complete-result", "", "none")
          /\ UNCHANGED execs
     ELSE /\ CanExec
          /\ execs' = Append(execs, NewExec(s, sid, "tab", <<"compgen">>, FALSE))
          /\ reply' = TermReply("terminal:tab-complete", sid, "none", "", "exec")
  /\ UNCHANGED <<variant, socketData, page, clock, batchVars, termVars, streams, emitted>>

\* an executeShellCommand of a tab completion returns: completions found, no
\* completion found, or an error. The first command is followed by a second
\* one (compgen -f, or ls after an error) unless it found completions
LegacyTabReturns(e, outcome) ==
  /\ e \in 1..Len(execs)
  /\ execs[e].kind = "tab"
  /\ execs[e].state = "running"
  /\ IF execs[e].step = 1 /\ outcome # "found"
     THEN /\ execs' = [execs EXCEPT ![e].step = 2]
          /\ reply' = TermReply("exec:exit", execs[e].sid, "none", "", "exec")
     ELSE /\ execs' = [execs EXCEPT ![e].state = "exited"]
          /\ reply' = TermReply("exec:exit", execs[e].sid, "terminal:tab-complete-result", "", "none")
  /\ UNCHANGED <<variant, socketData, page, clock, batchVars, termVars, streams, emitted>>

LegacyTerminalDisconnect(s, sid) ==
  /\ variant = "parallel"
  /\ IF Has(terminalSessions, sid)
     THEN /\ terminalSessions' = Del(terminalSessions, sid)
          /\ closed' = closed \cup {sid}
     ELSE UNCHANGED <<terminalSessions, closed>>
  /\ reply' = TermReply("terminal:disconnect", sid, "none", "", "none")
  /\ UNCHANGED <<variant, socketData, page, clock, batchVars, ioVars, ptyShellSessions, attempts>>

TerminalConnect(s, srv) ==
  \/ PtyTerminalConnect(s, srv)
  \/ LegacyTerminalConnect(s, srv)

TerminalCommand(s, sid) ==
  \/ PtyTerminalCommand(s, sid)
  \/ LegacyTerminalCommand(s, sid)

TerminalDisconnect(s, sid) ==
  \/ PtyTerminalDisconnect(s, sid)
  \/ LegacyTerminalDisconnect(s, sid)

TermNext ==
  \/ Tick
  \/ \E s \in Sockets, srv \in ConnectTargets : TerminalConnect(s, srv)
  \/ \E a \in attempts : PtyReady(a)
  \/ \E a \in attempts, why \in {"error", "Connection timeout", "shell error"} : PtyConnectFails(a, why)
  \/ \E a \in attempts : PtyShellOpened(a)
  \/ \E a \in attempts, ok \in BOOLEAN : LegacyShellCreated(a, ok)
  \/ \E s \in Sockets, sid \in TargetSids : TerminalInput(s, sid)
  \/ \E s \in Sockets, sid \in TargetSids : TerminalResize(s, sid)
  \/ \E s \in Sockets, sid \in TargetSids : PtyTerminalCommand(s, sid)
  \/ \E s \in Sockets, sid \in TargetSids : LegacySubmit(s, sid, <<" ">>)
  \/ \E s \in Sockets, sid \in TargetSids : TerminalDisconnect(s, sid)
  \/ \E n \in 1..Len(streams) : PtyStreamClose(n)
  \/ Reaper

SpecTerm == Init /\ [][TermNext]_vars

\* the sweep is a setInterval timer: it keeps firing
ReaperTimer == WF_vars(Reaper)

SpecReap == Init /\ [][TermNext]_vars /\ ReaperTimer

\* legacy sessions and the commands run on them
ExecNext ==
  \/ \E s \in Sockets : LegacyTerminalConnect(s, 1)
  \/ \E a \in attempts, ok \in BOOLEAN : LegacyShellCreated(a, ok)
  \/ \E s \in Sockets, sid \in TargetSids : LegacyTerminalCommand(s, sid)
  \/ \E s \in Sockets, sid \in TargetSids : LegacyTabComplete(s, sid)
  \/ \E e \in 1..Len(execs) : LegacyStream(e)
  \/ \E e \in 1..Len(execs), c \in ExitCodes : LegacyExit(e, c)
  \/ \E e \in 1..Len(execs) : LegacyExecError(e)
  \/ \E e \in 1..Len(execs), o \in {"found", "empty", "error"} : LegacyTabReturns(e, o)
  \/ \E s \in Sockets, sid \in TargetSids : LegacyTerminalDisconnect(s, sid)

\* every executeShellCommandStreaming call is given { timeout: 300000 }: the
\* engine reports a timeout error if nothing ended the execution before
ExecTimers == \A e \in 1..MaxExecs : WF_vars(LegacyExecError(e))

SpecExec == Init /\ [][ExecNext]_vars /\ ExecTimers

\* PTY sessions and their shell streams
PtyNext ==
  \/ \E s \in Sockets, srv \in ConnectTargets : PtyTerminalConnect(s, srv)
  \/ \E a \in attempts : PtyReady(a)
  \/ \E a \in attempts, why \in {"error", "Connection timeout", "shell error"} : PtyConnectFails(a, why)
  \/ \E a \in attempts : PtyShellOpened(a)
  \/ \E n \in 1..Len(streams) : PtyData(n)
  \/ \E s \in Sockets, sid \in TargetSids : TerminalInput(s, sid)
  \/ \E s \in Sockets, sid \in TargetSids : PtyTerminalDisconnect(s, sid)
  \/ \E n \in 1..Len(streams) : PtyStreamClose(n)

\* the only step of a connect the server schedules itself is its 15 s timer,
\* which is pending until 'ready' clears it
PtyTimers ==
  \A n \in 1..MaxSessions :
    WF_vars(\E a \in attempts : a.n = n /\ PtyConnectFails(a, "Connection timeout"))

SpecPty == Init /\ [][PtyNext]_vars /\ PtyTimers

\* ------------------------------------------------------ socket 'disconnect'
Connected(s) == socketData[s].connected

\* websocket-server.ts 774-789: the session socket.data.terminalSession names
\* is closed and removed, if it is registered
ParSocketDisconnect(s) ==
  /\ variant = "parallel"
  /\ LET sid == socketData[s].terminalSession
     IN IF sid # NoSid /\ Has(terminalSessions, sid)
        THEN /\ terminalSessions' = Del(terminalSessions, sid)
             /\ closed' = closed \cup {sid}
        ELSE UNCHANGED <<terminalSessions, closed>>
  /\ socketData' = [socketData EXCEPT ![s].connected = FALSE]
  /\ reply' = [NoReply EXCEPT !.ev = "disconnect"]
  /\ UNCHANGED <<variant, page, clock, batchVars, ioVars, ptyShellSessions, attempts>>

\* part_001 627-652: every session and every registered batch whose userId is
\* the socket's user is closed and removed
SeqSocketDisconnect(s) ==
  /\ variant = "sequential"
  /\ LET u == UserOf(s)
         gone == {sid \in DOMAIN terminalSessions : terminalSessions[sid].userId = u}
         ids == {id \in ExecIds : /\ scriptExecutions[id] # NoRun
                                   /\ runs[scriptExecutions[id]].userId = u}
         stopped == {scriptExecutions[id] : id \in ids}
     IN /\ terminalSessions' = [x \in DOMAIN terminalSessions \ gone |-> terminalSessions[x]]
        /\ ptyShellSessions' = [x \in DOMAIN ptyShellSessions \ gone |-> ptyShellSessions[x]]
        /\ streams' = EndStreams(gone, "disconnect")
        /\ closed' = closed \cup gone
        /\ runs' = [r \in 1..Len(runs) |->
                      IF r \in stopped THEN [runs[r] EXCEPT !.isRunning = FALSE]
                      ELSE runs[r]]
        /\ scriptExecutions' = [id \in ExecIds |->
                                  IF id \in ids THEN NoRun ELSE scriptExecutions[id]]
  /\ socketData' = [socketData EXCEPT ![s].connected = FALSE]
  /\ reply' = [NoReply EXCEPT !.ev = "disconnect"]
  /\ UNCHANGED <<variant, page, clock, execs, emitted, attempts>>

SocketDisconnect(s) ==
  \/ ParSocketDisconnect(s)
  \/ SeqSocketDisconnect(s)

\* the script:run requests of the connections
ConnRunInputs ==
  { [sock |-> "s1", command |-> <<"uptime">>, serverIds |-> <<1>>],
    [sock |-> "s2", command |-> <<"uptime">>, serverIds |-> <<4>>] }

\* connections that open terminals and start batches until they disconnect;
\* what a handler awaits still returns after its socket has disconnected
ConnNext ==
  \/ \E s \in Conns, srv \in {1, 4} : Connected(s) /\ TerminalConnect(s, srv)
  \/ \E a \in attempts : PtyReady(a)
  \/ \E a \in attempts : PtyShellOpened(a)
  \/ \E a \in attempts, ok \in BOOLEAN : LegacyShellCreated(a, ok)
  \/ \E s \in Conns, in \in ConnRunInputs :
        Connected(s) /\ UserOf(s) = UserOf(in.sock) /\ SeqScriptRun(s, in, NoId)
  \/ \E r \in RunIdx, c \in ExitCodes : SeqExit(r, c)
  \/ \E s \in Conns : Connected(s) /\ SocketDisconnect(s)

SpecConn == Init /\ [][ConnNext]_vars

\* two batches of one user that run side by side, and their cancellation
MaxSideBySide == 2
SideBySideInput == [sock |-> "s1", command |-> <<"uptime">>, serverIds |-> <<1>>]

SideRunIdx == 1..(MaxSideBySide + MaxReruns)

CancelNext ==
  \/ Tick
  \/ ParStart("s1", SideBySideInput, MaxSideBySide)
  \/ \E s \in Sockets, id \in TargetIds : ParScriptCancel(s, id)
  \/ \E r \in SideRunIdx : ParLogsCreated(r)
  \/ \E r \in SideRunIdx, c \in ExitCodes : ParExit(r, 1, c)
  \/ \E r \in SideRunIdx : ParUpdate(r, 1)
  \/ \E r \in SideRunIdx : ParCancelUpdated(r)
  \/ \E r \in SideRunIdx : ParCancelUpdateFails(r)

SpecCancel == Init /\ [][CancelNext]_vars

\* ------------------------------------------------------- the scripts page
\* newSocket.on('script:started'): a fresh terminals map, every host connecting
OnStarted(terminals, servers) ==
  [h \in ServerRows |-> IF h \in Range(servers) THEN "connecting" ELSE "none"]

\* newSocket.on('script:stream')
OnStream(terminals, h) ==
  IF terminals[h] # "none" /\ terminals[h] # "success" /\ terminals[h] # "failed"
  THEN [terminals EXCEPT ![h] = "running"]
  ELSE terminals

\* newSocket.on('script:progress')
OnProgress(terminals, h, status) ==
  IF terminals[h] # "none" THEN [terminals EXCEPT ![h] = status] ELSE terminals

\* newSocket.on('script:cancelled')
OnCancelled(terminals) ==
  [h \in ServerRows |->
     IF terminals[h] \in {"running", "connecting", "pending"} THEN "failed"
     ELSE terminals[h]]

\* every event the server has sent has been delivered
InSync ==
  \A r \in 1..Len(runs) :
    /\ page.started[r] = runs[r].started
    /\ page.cancelled[r] = runs[r].cancelled
    /\ \A h \in DOMAIN runs[r].task : page.progress[r][h] = Len(runs[r].task[h].progress)

PageStarted(r) ==
  /\ r \in 1..Len(runs)
  /\ page.started[r] < runs[r].started
  /\ page' = [page EXCEPT !.started[r] = @ + 1,
                           !.terminals = OnStarted(@, runs[r].servers)]
  /\ reply' = NoReply
  /\ UNCHANGED <<variant, clock, batchVars, termVars, ioVars, socketData>>

PageProgress(r, h) ==
  /\ r \in 1..Len(runs)
  /\ h \in DOMAIN runs[r].task
  /\ page.started[r] = runs[r].started
  /\ page.progress[r][h] < Len(runs[r].task[h].progress)
  /\ page' = [page EXCEPT
                !.progress[r][h] = @ + 1,
                !.terminals = OnProgress(@, h, runs[r].task[h].progress[page.progress[r][h] + 1])]
  /\ reply' = NoReply
  /\ UNCHANGED <<variant, clock, batchVars, termVars, ioVars, socketData>>

PageCancelled(r) ==
  /\ r \in 1..Len(runs)
  /\ page.cancelled[r] < runs[r].cancelled
  /\ page' = [page EXCEPT !.cancelled[r] = @ + 1, !.terminals = OnCancelled(@)]
  /\ reply' = NoReply
  /\ UNCHANGED <<variant, clock, batchVars, termVars, ioVars, socketData>>

\* the streaming callback of a running host sends script:stream, unless the
\* host is flagged aborted (parallel) or the batch is not running (sequential)
PageStream(r, h) ==
  /\ r \in 1..Len(runs)
  /\ h \in DOMAIN runs[r].task
  /\ runs[r].task[h].pc = "streaming"
  /\ IF variant = "parallel" THEN ~runs[r].abort[h] ELSE MapLive(runs[r].execId)
  /\ page' = [page EXCEPT !.terminals = OnStream(@, h)]
  /\ reply' = NoReply
  /\ UNCHANGED <<variant, clock, batchVars, termVars, ioVars, socketData>>

PageRunInputs ==
  { [sock |-> "s1", command |-> <<"uptime">>, serverIds |-> <<1>>] }

\* the server's batch handlers and the page that receives their events; an
\* event is delivered before the server takes its next step
PageNext ==
  \/ \E in \in PageRunInputs : InSync /\ ScriptRun("s1", in)
  \/ \E id \in TargetIds : InSync /\ ScriptCancel("s1", id)
  \/ \E r \in RunIdx : InSync /\ ParLogsCreated(r)
  \/ \E r \in RunIdx, h \in ServerRows, c \in ExitCodes : InSync /\ ParExit(r, h, c)
  \/ \E r \in RunIdx, h \in ServerRows : InSync /\ ParUpdate(r, h)
  \/ \E r \in RunIdx, h \in ServerRows : InSync /\ ParUpdateFails(r, h)
  \/ \E r \in RunIdx, h \in ServerRows : InSync /\ ParCatchUpdate(r, h)
  \/ \E r \in RunIdx : InSync /\ ParCancelUpdated(r)
  \/ \E r \in RunIdx, c \in ExitCodes : InSync /\ SeqExit(r, c)
  \/ \E r \in RunIdx : InSync /\ SeqExecError(r)
  \/ \E r \in RunIdx, h \in ServerRows : InSync /\ PageStream(r, h)
  \/ \E r \in RunIdx : PageStarted(r)
  \/ \E r \in RunIdx, h \in ServerRows : PageProgress(r, h)
  \/ \E r \in RunIdx : PageCancelled(r)

SpecPage == Init /\ [][PageNext]_vars

Next == BatchNext

Spec == Init /\ [][Next]_vars

\* ========================================================================
\* Properties
\* ========================================================================
AllRuns == 1..Len(runs)
Hosts(r) == DOMAIN runs[r].task

\* the caller's right to use a host: the row exists and the caller is its
\* owner or an administrator
Authorized(s, srv) ==
  /\ srv \in ServerRows
  /\ RoleOf(s) = "ADMIN" \/ ServerOwner(srv) = UserOf(s)

\* C1: in a batch over hosts {1, 2, 3} that is not cancelled and in which only
\* host 2's connection fails, the failure does not end the batch with an
\* error, and once script:completed is emitted hosts 1 and 3 have each been
\* reported once with the outcome of their own exit code, host 2 has been
\* reported failed once, and the counts are one failure for host 2 plus the
\* outcomes of hosts 1 and 3.
C1_SiblingIsolation ==
  \A r \in AllRuns :
    LET run == runs[r]
    IN (/\ run.serverIds = <<1, 2, 3>>
        /\ ~run.cancelRequested
        /\ run.task[2].remote = "error"
        /\ \A h \in {1, 3} : run.task[h].remote # "error")
       => /\ run.phase # "errored"
          /\ run.completed >= 1 =>
               /\ run.task[2].reports = <<"failed">>
               /\ \A h \in {1, 3} :
                    /\ run.task[h].remote = "exit"
                    /\ run.task[h].reports = <<StatusOf(run.task[h].exit)>>
               /\ run.failedCount =
                    1 + Cardinality({h \in {1, 3} : run.task[h].exit # 0})
               /\ run.successCount =
                    Cardinality({h \in {1, 3} : run.task[h].exit = 0})

\* C2: a host that had no terminal state when script:cancel was handled is
\* never reported success afterwards, neither by a script:progress event nor
\* in the successCount of script:completed, and when the batch is over the
\* host is failed.
C2_CancelFailsLiveHosts ==
  \A r \in AllRuns : \A h \in Hosts(r) :
    LET t == runs[r].task[h]
    IN t.liveAtCancel =>
         /\ \A i \in 1..Len(t.reports) : t.reports[i] # "success"
         /\ t.result # "success"
         /\ runs[r].phase = "finished" => t.result = "failed"

\* C3: a terminal:input, terminal:command or terminal:resize naming a session
\* id that was closed (and is not registered) is answered with the unknown
\* session error and reaches no remote stream.
C3_ClosedSessionIsUnknown ==
  (/\ reply.ev \in {"terminal:input", "terminal:command", "terminal:resize"}
   /\ reply.sid \in closed
   /\ ~Has(terminalSessions, reply.sid))
  => /\ reply.out = "terminal:error"
     /\ reply.err = "Invalid terminal session"
     /\ reply.effect = "none"

\* C4: no batch record exists for a command that matches the deny-list (a
\* script:run with such a command is rejected before the record is made, so
\* no execution is started for it either).
C4_DenyListedNeverRuns ==
  \A r \in AllRuns : ~DenyListed(runs[r].command)

\* a connect is in flight, and a session is registered, only for a host its
\* user is authorized for
C5_ConnectedOnlyIfAuthorized ==
  /\ \A a \in attempts : Authorized(a.sock, a.srv)
  /\ \A sid \in DOMAIN terminalSessions :
       \E s \in Sockets : /\ UserOf(s) = terminalSessions[sid].userId
                          /\ Authorized(s, terminalSessions[sid].serverId)

\* a terminal:connect by a caller without the right to the host is answered
\* with terminal:error, attempts no connect and registers no session
C5_DeniedConnectHasNoEffect ==
  \A s \in Sockets, srv \in ConnectTargets :
    (TerminalConnect(s, srv) /\ ~Authorized(s, srv))
    => /\ reply'.out = "terminal:error"
       /\ reply'.effect = "none"
       /\ srv \in ServerRows => reply'.err = "Access denied to this server"
       /\ UNCHANGED termVars

\* C5: terminal:connect checks the caller's right to the host before any
\* connection is attempted: a connect is in flight and a session is registered
\* only for a host its user is authorized for, and a terminal:connect by a
\* caller without that right is answered with terminal:error (the access
\* denied message when the host exists), attempts no connect and registers no
\* session.
C5_AuthorizationBeforeConnect ==
  []C5_ConnectedOnlyIfAuthorized /\ [][C5_DeniedConnectHasNoEffect]_vars

\* C5 witness: a terminal:connect was refused for lack of access, no connect
\* is in flight, and the one session registered is an authorized caller's
C5_Witness ==
  /\ reply.ev = "terminal:connect"
  /\ reply.err = "Access denied to this server"
  /\ attempts = {}
  /\ Cardinality(DOMAIN terminalSessions) = 1

\* C6: every host of a batch is one the requesting user is authorized for, and
\* a batch record exists only if at least one requested host is authorized.
C6_OnlyAuthorizedHosts ==
  \A r \in AllRuns :
    /\ \A h \in Hosts(r) : Authorized(runs[r].sock, h)
    /\ \E h \in Range(runs[r].serverIds) : Authorized(runs[r].sock, h)

\* C7: each host of a batch gets at most one terminal script:progress event,
\* and the outcome the batch counts for the host is the one that was reported.
C7_OneTerminalProgress ==
  \A r \in AllRuns : \A h \in Hosts(r) :
    LET t == runs[r].task[h]
    IN /\ Len(t.reports) <= 1
       /\ (t.reports # <<>> /\ t.result # "none") => t.result = t.reports[1]

\* C8: script:completed is emitted at most once per batch, and only after
\* every host of the batch has had its terminal script:progress event.
C8_CompletedAfterAllHosts ==
  \A r \in AllRuns :
    /\ runs[r].completed <= 1
    /\ runs[r].completed >= 1 => \A h \in Hosts(r) : runs[r].task[h].reports # <<>>

\* C9 (the part that can fail in finite time): a batch for which script:started
\* was emitted never gets two batch-level terminal events; in particular not
\* both script:cancelled and script:completed.
C9_OneBatchTerminalEvent ==
  \A r \in AllRuns :
    runs[r].started >= 1 =>
      runs[r].completed + runs[r].cancelled + runs[r].errors <= 1

\* every batch that was given the id is over or already cancelled
Settled(id) ==
  /\ \E r \in AllRuns : runs[r].execId = id
  /\ \A r \in AllRuns :
       runs[r].execId = id => runs[r].cancelRequested \/ runs[r].phase = "finished"

C10_ExtraCancelIsNoOp ==
  \A s \in Sockets, id \in ExecIds :
    (ScriptCancel(s, id) /\ Settled(id))
    => /\ UNCHANGED batchVars
       /\ reply'.out = "none"

\* C10: a script:cancel naming an id whose batches are all over or already
\* cancelled changes nothing: the registry, the batches, their script logs and
\* their counts stay as they are and the handler emits nothing.
C10_CancelIdempotent == [][C10_ExtraCancelIsNoOp]_vars

\* C10 witness: a script:cancel was handled for a batch whose script:cancelled
\* had been emitted before
C10_Witness ==
  /\ reply.ev = "script:cancel"
  /\ reply.out = "none"
  /\ \E r \in AllRuns : /\ runs[r].execId = reply.id
                        /\ runs[r].cancelled = 1
                        /\ runs[r].completed = 1

\* C11: after script:cancel no host execution of the batch runs on to its own
\* end: a host that had no terminal state when the cancel was handled never
\* delivers the exit code of a command that ran to completion.
C11_CancelStopsExecutions ==
  \A r \in AllRuns : \A h \in Hosts(r) :
    runs[r].task[h].liveAtCancel => runs[r].task[h].remote # "exit"

Terminal(st) == st \in {"success", "failed"}

\* C12: for each host of a batch the progress events are ordered: every
\* terminal script:progress (success, failed) comes after the host's
\* non-terminal one (running), and no running event comes after a terminal one.
C12_ProgressOrdered ==
  \A r \in AllRuns : \A h \in Hosts(r) :
    LET p == runs[r].task[h].progress
    IN \A i \in 1..Len(p) :
         Terminal(p[i]) =>
           /\ i > 1
           /\ p[1] = "running"
           /\ \A j \in (i + 1)..Len(p) : p[j] # "running"

\* C12 witness: two hosts of one batch have each had their running event and
\* then their terminal event, one success and one failed
C12_Witness ==
  \E r \in AllRuns : \E h1, h2 \in Hosts(r) :
    /\ runs[r].task[h1].progress = <<"running", "success">>
    /\ runs[r].task[h2].progress = <<"running", "failed">>

\* a terminal:connect succeeds: the session is registered
Registers(a) == PtyShellOpened(a) \/ LegacyShellCreated(a, TRUE)

C13_RegistersUnderFreshId ==
  \A a \in attempts : Registers(a) => ~Has(terminalSessions, a.sid)

\* C13: every successful terminal:connect registers its session under an id
\* that no registered session holds, so that no live session is replaced.
C13_SessionIdUnique == [][C13_RegistersUnderFreshId]_vars

\* a client event that names a session
SessionEvent(s, sid) ==
  \/ TerminalInput(s, sid)
  \/ TerminalResize(s, sid)
  \/ TerminalCommand(s, sid)
  \/ TerminalDisconnect(s, sid)

C14_UnknownIdAnswered ==
  \A s \in Sockets, sid \in TargetSids :
    (SessionEvent(s, sid) /\ ~SessionLive(sid))
    => /\ reply'.out = "terminal:error"
       /\ UNCHANGED termVars

\* C14: a terminal:input, terminal:command, terminal:resize or
\* terminal:disconnect naming an id that is not a live session leaves the
\* registries as they are and is answered with an error event.
C14_NeverSilentlyDropped == [][C14_UnknownIdAnswered]_vars

SessionEvents == {"terminal:data", "terminal:output", "terminal:error", "terminal:closed"}
C15_EventNamesItsSession ==
  \A sid \in DOMAIN terminalSessions :
    (/\ SessionLive(sid)
     /\ reply'.sid = sid
     /\ reply'.ev # "terminal:connect"
     /\ reply'.out \in SessionEvents)
    => reply'.tagged
\* C15: every data, output, error and closed event the server emits for a live
\* session has that session's id in its payload
C15_SessionEventsCarryId == [][C15_EventNamesItsSession]_vars

Pending(n) == \E a \in attempts : a.n = n
\* C16: every createPTYShellSession call in flight is eventually resolved,
\* with no help from the remote side
C16_ConnectResolves == \A n \in 1..MaxSessions : Pending(n) ~> ~Pending(n)

Commands == {e \in 1..Len(execs) : execs[e].kind = "command"}
C17_NeverTwoCompletions ==
  \A e \in Commands :
    /\ execs[e].completions <= 1
    /\ execs[e].state # "running" => execs[e].completions = 1
C17_Completes(e) == (e \in Commands) ~> (e \in Commands /\ execs[e].completions = 1)
\* C17: every command accepted on a live legacy session gets exactly one
\* terminal:output with isComplete, after an exit code as after an error
C17_ExactlyOneCompletion ==
  /\ []C17_NeverTwoCompletions
  /\ \A e \in 1..MaxExecs : C17_Completes(e)
C17_Witness ==
  \E e1, e2 \in Commands :
    /\ execs[e1].state = "exited" /\ execs[e1].completions = 1
    /\ execs[e2].state = "failed" /\ execs[e2].completions = 1

\* the client presses Ctrl+C: terminal:command with the byte 0x03 on a legacy
\* session, raw terminal:input on a PTY session
InterruptSent(s, sid) == LegacySubmit(s, sid, CtrlC) \/ TerminalInput(s, sid)
Streaming(sid) ==
  \/ Running(sid) # {}
  \/ /\ SessionLive(sid)
     /\ Has(ptyShellSessions, sid)
     /\ streams[ptyShellSessions[sid].stream].state = "open"
C18_InterruptReachesStream ==
  \A s \in Sockets, sid \in TargetSids :
    (InterruptSent(s, sid) /\ SessionLive(sid) /\ Streaming(sid))
    => reply'.effect = "write"
\* C18: an interrupt byte sent for a session with an invocation still streaming
\* is written to that invocation's remote stream by the very step that
\* receives it
C18_InterruptDelivered == [][C18_InterruptReachesStream]_vars

\* C19: a legacy session never has two remote command executions in flight
C19_OneCommandAtATime ==
  \A e1, e2 \in 1..Len(execs) :
    (/\ execs[e1].sid = execs[e2].sid
     /\ execs[e1].state = "running"
     /\ execs[e2].state = "running") => e1 = e2

Chunks(n) == [k \in 1..streams[n].produced |-> <<n, k>>]
\* C20: the terminal:data events sent under a PTY session's id are the chunks
\* of that session's one remote stream, in order and each once: no chunk of
\* another stream appears among them
C20_DataFollowsStream ==
  \A sid \in DOMAIN emitted :
    \E n \in 1..Len(streams) :
      streams[n].sid = sid /\ emitted[sid] = Chunks(n)

\* C21: no terminal:data is emitted under the id of a PTY session that was
\* removed or for which terminal:closed was sent
C21_NoDataAfterClose ==
  reply.out = "terminal:data" => Has(terminalSessions, reply.sid)

\* the running flag held in the registry under a batch id
IdRunning(id) ==
  /\ scriptExecutions[id] # NoRun
  /\ runs[scriptExecutions[id]].isRunning
  /\ runs[scriptExecutions[id]].status = "running"
Cleared(r) ==
  \/ ~(runs[r].isRunning /\ runs[r].status = "running")
  \/ runs[r].phase = "finished"
Dispatched(r) == {h \in Hosts(r) : runs[r].task[h].pc # "idle"}
C22_ClearedBatchStaysCleared ==
  \A r \in AllRuns :
    Cleared(r) => /\ ~IdRunning(runs[r].execId)'
                  /\ Dispatched(r)' = Dispatched(r)
\* C22: once the running flag of a batch id was cleared it is never true again
\* and the cleared batch starts no further host
C22_RunningFlagNeverReturns == [][C22_ClearedBatchStaysCleared]_vars

\* C23: after script:completed or script:cancelled was emitted for a batch, the
\* registry holds no record of that batch
C23_EndedBatchIsRemoved ==
  \A r \in AllRuns :
    (runs[r].completed > 0 \/ runs[r].cancelled > 0)
    => scriptExecutions[runs[r].execId] # r

\* the last step was activity on the session: client input, a command or a
\* resize that reached it, or data from its remote side. No time has passed
\* since, as every tick of the clock resets reply
JustActive(sid) ==
  /\ reply.sid = sid
  /\ \/ reply.effect \in {"write", "resize", "exec"}
     \/ reply.out \in {"terminal:data", "terminal:stream"}
C24_SweepSparesActive ==
  \A sid \in DOMAIN terminalSessions :
    (JustActive(sid) /\ Reaper) => sid \in DOMAIN terminalSessions'
\* C24: the idle sweep never closes a session whose last input, command,
\* resize or remote data is within the inactivity threshold
C24_ReaperOnlyClosesIdle == [][C24_SweepSparesActive]_vars

\* C25: a PTY session destroyed without the client asking for it has had
\* exactly one terminal:closed sent once its stream is closed
C25_ClosedEventForUnaskedEnd ==
  \A n \in 1..Len(streams) :
    /\ streams[n].closedSent <= 1
    /\ (streams[n].state = "closed" /\ streams[n].endedBy # "client")
       => streams[n].closedSent = 1

\* C26: every command text handed to the remote side for a legacy session
\* came out of the command preprocessor
C26_OnlyPreprocessedRuns == \A e \in 1..Len(execs) : execs[e].prepared

\* C27: while a host of a batch is still executing, no other host of the
\* batch is waiting to be started
C27_HostsRunSimultaneously ==
  \A r \in AllRuns : \A h1, h2 \in Hosts(r) :
    runs[r].task[h1].pc = "streaming" => runs[r].task[h2].pc # "idle"

C28_SecondCloseChangesNothing ==
  /\ \A s \in Sockets, sid \in TargetSids :
       (TerminalDisconnect(s, sid) /\ ~Has(terminalSessions, sid))
       => UNCHANGED <<termVars, ioVars>>
  /\ \A n \in 1..Len(streams) :
       (PtyStreamClose(n) /\ ~Has(ptyShellSessions, streams[n].sid))
       => /\ UNCHANGED <<terminalSessions, ptyShellSessions>>
          /\ \A i \in 1..Len(streams) : i # n => streams'[i] = streams[i]
\* C28: a terminal:disconnect, or the close call of a stream's 'close' event,
\* for an id that is not registered (closed before, or never known) leaves
\* the registries as they are and ends no stream
C28_CloseIsIdempotent == [][C28_SecondCloseChangesNothing]_vars
C28_Witness ==
  /\ reply.ev = "terminal:disconnect"
  /\ ~Has(terminalSessions, reply.sid)
  /\ \E n \in 1..Len(streams) :
       streams[n].sid = reply.sid /\ streams[n].state = "closed"
  /\ DOMAIN terminalSessions # {}

C29_ForeignSessionUntouched ==
  \A s \in Sockets, sid \in DOMAIN terminalSessions :
    (SessionEvent(s, sid) /\ terminalSessions[sid].userId # UserOf(s))
    => /\ reply'.effect = "none"
       /\ UNCHANGED <<termVars, ioVars>>
\* C29: a terminal:input, terminal:command, terminal:resize or
\* terminal:disconnect naming a session of another user neither writes to it,
\* runs a command in it, resizes it nor closes it
C29_OnlyOwnerActsOnSession == [][C29_ForeignSessionUntouched]_vars

\* the run registered under a batch id belongs to another user than the socket's
ForeignBatch(s, id) ==
  /\ scriptExecutions[id] # NoRun
  /\ runs[scriptExecutions[id]].userId # UserOf(s)

C30_ForeignCancelChangesNothing ==
  \A s \in Sockets, id \in DOMAIN scriptExecutions :
    (ScriptCancel(s, id) /\ ForeignBatch(s, id))
    => UNCHANGED <<runs, scriptExecutions>>
\* C30: a script:cancel naming a batch that another user started leaves the
\* batch's status, abort flags, registry entry and script logs as they are
C30_OnlyOwnerCancels == [][C30_ForeignCancelChangesNothing]_vars

\* the hosts of run r whose last terminal script:progress had status st
ReportedAs(r, st) ==
  {h \in Hosts(r) : runs[r].task[h].reports # <<>>
                     /\ runs[r].task[h].reports[Len(runs[r].task[h].reports)] = st}

\* C31: the successCount and failedCount of every script:completed are the
\* numbers of hosts whose terminal script:progress had status success and
\* failed, also when the batch was cancelled while hosts were running
C31_CountsMatchProgress ==
  \A r \in AllRuns :
    runs[r].completed > 0
    => /\ runs[r].successCount = Cardinality(ReportedAs(r, "success"))
       /\ runs[r].failedCount = Cardinality(ReportedAs(r, "failed"))

\* C32: in every script:completed successCount + failedCount is totalServers,
\* also when the batch was cancelled before some of its hosts were started
C32_EveryHostCounted ==
  \A r \in AllRuns :
    runs[r].completed > 0
    => runs[r].successCount + runs[r].failedCount = Len(runs[r].servers)

\* C33: after a socket has disconnected no session opened through it is still
\* registered, be it opened by an earlier terminal:connect of the socket or by
\* one that was in flight when the disconnect was handled
C33_NoSessionOutlivesSocket ==
  \A s \in Conns :
    ~Connected(s)
    => \A sid \in DOMAIN terminalSessions : terminalSessions[sid].sock # s

\* what is registered for the sessions and batches opened through sockets
\* other than s
OthersSessions(s) ==
  [sid \in {x \in DOMAIN terminalSessions : terminalSessions[x].sock # s}
     |-> terminalSessions[sid]]
OthersBatches(s) ==
  [id \in {x \in ExecIds : scriptExecutions[x] # NoRun
                            /\ runs[scriptExecutions[x]].sock # s}
     |-> runs[scriptExecutions[id]]]

C34_DisconnectTouchesOwnOnly ==
  \A s \in Conns :
    SocketDisconnect(s)
    => /\ OthersSessions(s)' = OthersSessions(s)
       /\ OthersBatches(s)' = OthersBatches(s)
\* C34: the disconnect of a socket leaves every session and every batch that
\* was opened through another socket as it is, also those of other connected
\* sockets of the same user
C34_DisconnectFrame == [][C34_DisconnectTouchesOwnOnly]_vars

\* a batch that is registered under the id and still active
ActiveBatch(id) ==
  /\ scriptExecutions[id] # NoRun
  /\ IF variant = "parallel"
     THEN runs[scriptExecutions[id]].status = "running"
     ELSE runs[scriptExecutions[id]].isRunning

C35_StartsUnderFreeId ==
  Len(runs') = Len(runs) + 1 => ~ActiveBatch(runs'[Len(runs')].execId)
\* C35: every script:run registers its batch under an id that no active batch
\* holds, so that starting a batch never replaces the record of another one
C35_BatchIdUnique == [][C35_StartsUnderFreeId]_vars

\* a step of the script:cancel handler working on the batch of run t
CancelStepOn(t) ==
  \/ \E s \in Sockets, id \in TargetIds :
        ParScriptCancel(s, id) /\ scriptExecutions[id] = t
  \/ ParCancelUpdated(t)
  \/ ParCancelUpdateFails(t)

C36_CancelTouchesOnlyItsBatch ==
  \A t \in AllRuns :
    CancelStepOn(t)
    => \A r \in AllRuns : runs[r].execId # runs[t].execId => runs'[r] = runs[r]
\* C36: script:cancel on a batch leaves the status, the abort flags and the
\* script-log status of every other batch as they are, also those of another
\* running batch of the same user
C36_CancelFrame == [][C36_CancelTouchesOnlyItsBatch]_vars

\* the last step resolved a createPTYShellSession with success false
ResolvedFalse ==
  /\ reply.ev = "terminal:connect"
  /\ reply.out = "terminal:error"
  /\ reply.sid # NoSid

\* C37: when createPTYShellSession resolves with success false, the PTY
\* registry holds no entry under the session id of that attempt
C37_FailedConnectLeavesNoEntry ==
  ResolvedFalse => ~Has(ptyShellSessions, reply.sid)

\* the session ids terminal:connect can compute
AllSids ==
  {PtySessionId(u, srv, now) : u \in {1, 2}, srv \in {1, 4}, now \in 0..MaxClock}
    \cup {LegacySessionId(u, srv, now) : u \in {1, 2}, srv \in {1, 4}, now \in 0..MaxClock}

\* the session is registered, its last activity was at time la and is older
\* than the threshold
IdleSince(sid, la) ==
  /\ Has(terminalSessions, sid)
  /\ terminalSessions[sid].lastActivity = la
  /\ clock > la

\* the session is in neither registry, or it had activity after la
ReapedOrActive(sid, la) ==
  \/ ~Has(terminalSessions, sid) /\ ~Has(ptyShellSessions, sid)
  \/ Has(terminalSessions, sid) /\ terminalSessions[sid].lastActivity # la

\* the sweep ends the stream of every PTY session it removes
C38_SweepEndsStreams ==
  Reaper => \A sid \in DOMAIN terminalSessions \cap DOMAIN ptyShellSessions :
               Idle(sid) => streams'[ptyShellSessions[sid].stream].state # "open"

\* C38: a registered session whose last activity is older than the threshold
\* and that receives no further activity is eventually closed by the sweep:
\* its stream is ended and it is removed from terminalSessions and from the
\* PTY registry
C38_IdleSessionReaped ==
  /\ [][C38_SweepEndsStreams]_vars
  /\ \A sid \in AllSids, la \in 0..MaxClock :
        IdleSince(sid, la) ~> ReapedOrActive(sid, la)

\* the sweep has removed an idle PTY session and ended its stream
C38_Witness ==
  \E n \in 1..Len(streams) :
    /\ streams[n].endedBy = "sweep"
    /\ ~Has(terminalSessions, streams[n].sid)
    /\ ~Has(ptyShellSessions, streams[n].sid)

\* the last step handled a script:run and turned it down
RunRejected == reply.ev = "script:run" /\ reply.out = "script:error"

C39_AuthorizedRunStarts ==
  \A in \in RunInputs :
    ( /\ ScriptRun(in.sock, in)
      /\ in.serverIds # <<>>
      /\ \A i \in 1..Len(in.serverIds) : Authorized(in.sock, in.serverIds[i])
      /\ Truthy(Trim(in.command)) )
    => /\ ~RunRejected'
       /\ Len(runs') = Len(runs) + 1
\* C39: a script:run whose serverIds all name servers the user is authorized
\* for is not rejected and starts a batch, also when an id is named twice
C39_AuthorizedRunAccepted == [][C39_AuthorizedRunStarts]_vars

\* a step in which the page handles a script:stream, script:progress or
\* script:cancelled event of run r
PageEvent(r) ==
  \/ \E h \in ServerRows : PageStream(r, h)
  \/ \E h \in ServerRows : PageProgress(r, h)
  \/ PageCancelled(r)

\* the run whose script:started the page handled last
CurrentExecution(r) ==
  /\ page.started[r] > 0
  /\ \A q \in (r + 1)..Len(runs) : page.started[q] = 0

C40_FinalStatusKept ==
  \A r \in AllRuns :
    (CurrentExecution(r) /\ PageEvent(r))
    => \A h \in ServerRows :
         page.terminals[h] \in {"success", "failed"}
         => page.terminals'[h] = page.terminals[h]
\* C40: once the page shows a host as success or failed, no later
\* script:stream, script:progress or script:cancelled of the current
\* execution changes that status
C40_PageStatusFinal == [][C40_FinalStatusKept]_vars
====
